---- MODULE Spec2Model ----
(***************************************************************************)
(* A model of the Yad2 scraper: the ZenRows rendering client with its      *)
(* retry loop (zenrows_client.py), the phone cascade, the classifiers and  *)
(* the per-user pipeline run (utils.py, main.py, db.py).                   *)
(*                                                                         *)
(* Texts are sequences of one-character strings.  The character "T" stands *)
(* for the Hebrew word for "today" (the four letters the code looks for),  *)
(* "x" and "X" for ordinary letters and "~e" for a character outside the   *)
(* set STRANGE_CHARS_PATTERN keeps.                                        *)
(***************************************************************************)
EXTENDS Integers, Sequences, FiniteSets, TLC

VARIABLES
    mr,     \* the frame of the running ZenRowsClient._make_request call
    ph,     \* the frame of the running ZenRowsClient.get_phone_number call
    run,    \* the frame of run_scraper_for_user, with the database it writes
    dc,     \* one is_date_today evaluation: its input, the clock, its result
    hc,     \* generate_listing_id evaluated on two triples
    oc,     \* one is_private_owner evaluation: the listing, the result
    nc      \* normalize_phone_number evaluated on a text and on its result

vars == <<mr, ph, run, dc, hc, oc, nc>>

(***************************************************************************)
(* Bounds of the model.                                                    *)
(***************************************************************************)
MaxRetriesCap == 3        \* largest client max_retries explored
MaxPhoneRetriesCap == 2   \* largest PHONE_MAX_RETRIES explored
MaxListings == 2          \* longest listings sequence of one page
MaxRuns == 2              \* most runs made on one database
MaxDigits == 11           \* most digits in a text given normalize_phone_number

(***************************************************************************)
(* config.py                                                               *)
(***************************************************************************)
MAX_RETRIES == 3
PHONE_MAX_RETRIES == 2
\* BACKOFF_FACTOR = 1.5, kept exact as the fraction 3/2
BACKOFF_NUM == 3
BACKOFF_DEN == 2
\* MIN_DELAY = 2.0 and MAX_DELAY = 5.0 seconds
MIN_DELAY == 2
MAX_DELAY == 5

Digits == {"0", "1", "2", "3", "4", "5", "6", "7", "8", "9"}

RECURSIVE IntPow(_, _)
IntPow(b, n) == IF n = 0 THEN 1 ELSE b * IntPow(b, n - 1)

\* self.backoff_factor ** retries, as an exact fraction
Backoff(n) == [num |-> IntPow(BACKOFF_NUM, n), den |-> IntPow(BACKOFF_DEN, n)]

(***************************************************************************)
(* utils.py: phone texts                                                   *)
(***************************************************************************)
RECURSIVE OnlyDigits(_)
\* re.sub(r'\D', '', phone)
OnlyDigits(s) ==
    IF s = <<>> THEN <<>>
    ELSE IF Head(s) \in Digits THEN <<Head(s)>> \o OnlyDigits(Tail(s))
    ELSE OnlyDigits(Tail(s))

\* the lengths of digit strings normalize_phone_number formats (lines 95-103)
FormatsLengthFromEight(n) == 8 <= n /\ n <= 10
FormatsLength(n) == n = 9 \/ n = 10

\* normalize_phone_number applied to a text (None is not modelled)
normalize_phone_number(phone) ==
    LET digits == OnlyDigits(phone)
        n == Len(digits)
    IN  IF ~FormatsLength(n) THEN <<>>
        ELSE IF n = 10
             THEN SubSeq(digits, 1, 3) \o <<"-">> \o SubSeq(digits, 4, 6)
                      \o <<"-">> \o SubSeq(digits, 7, n)
             ELSE SubSeq(digits, 1, 2) \o <<"-">> \o SubSeq(digits, 3, 5)
                      \o <<"-">> \o SubSeq(digits, 6, n)

\* the frame of normalize_phone_number evaluated on a text, then on its result
NewNormalizeCall(phone) ==
    [pc |-> "call", phone |-> phone, once |-> <<>>, twice |-> <<>>]
IdleNormalize == [NewNormalizeCall(<<>>) EXCEPT !.pc = "idle"]

\* length of the match of PHONE_PATTERN 0[2-9][0-9]{7,8} starting at s[i], or 0
PhoneMatchAt(s, i) ==
    IF /\ i + 8 <= Len(s)
       /\ s[i] = "0"
       /\ s[i + 1] \in (Digits \ {"0", "1"})
       /\ \A k \in 2..8 : s[i + k] \in Digits
    THEN IF i + 9 <= Len(s) /\ s[i + 9] \in Digits THEN 10 ELSE 9
    ELSE 0

\* re.findall(config.PHONE_PATTERN, text)[0], or <<>> when nothing matches
FirstPhoneMatch(s) ==
    LET starts == {i \in 1..Len(s) : PhoneMatchAt(s, i) > 0}
    IN  IF starts = {} THEN <<>>
        ELSE LET i == CHOOSE j \in starts : \A k \in starts : j <= k
             IN  SubSeq(s, i, i + PhoneMatchAt(s, i) - 1)

(***************************************************************************)
(* A page's markup: its text, and the data-phone attribute of the first    *)
(* element matching '.viewPhone, .phone-number, [data-phone]' (<<>> when   *)
(* there is no such element or attribute).                                 *)
(***************************************************************************)
Markup(text, dataPhone) == [text |-> text, dataPhone |-> dataPhone]

EmptyHtml == Markup(<<>>, <<>>)
NoPhoneHtml == Markup(<<"x">>, <<>>)
PhoneHtml ==
    Markup(<<"x", "0", "5", "2", "1", "2", "3", "4", "5", "6", "7", "x">>, <<>>)
DataPhoneHtml ==
    Markup(<<"x">>, <<"0", "4", "-", "8", "1", "2", "3", "4", "5", "6">>)
BadDataPhoneHtml == Markup(<<"x">>, <<"1", "2", "3">>)

Htmls == {NoPhoneHtml, PhoneHtml, DataPhoneHtml, BadDataPhoneHtml}

\* extract_phone_number_from_html
extract_phone_number_from_html(html) ==
    LET m == FirstPhoneMatch(html.text)
    IN  IF m # <<>> THEN normalize_phone_number(m)
        ELSE IF html.dataPhone # <<>> THEN normalize_phone_number(html.dataPhone)
        ELSE <<>>

(***************************************************************************)
(* utils.py: texts, normalize_text                                         *)
(***************************************************************************)
Spaces == {" "}
\* characters STRANGE_CHARS_PATTERN removes
Strange == {"~e"}

RECURSIVE CollapseSpaces(_)
\* re.sub(r"\s+", ' ', text)
CollapseSpaces(s) ==
    IF s = <<>> THEN <<>>
    ELSE IF Head(s) \in Spaces /\ Tail(s) # <<>> /\ Head(Tail(s)) \in Spaces
    THEN CollapseSpaces(Tail(s))
    ELSE <<Head(s)>> \o CollapseSpaces(Tail(s))

RECURSIVE RemoveStrange(_)
\* re.sub(config.STRANGE_CHARS_PATTERN, '', text)
RemoveStrange(s) ==
    IF s = <<>> THEN <<>>
    ELSE IF Head(s) \in Strange THEN RemoveStrange(Tail(s))
    ELSE <<Head(s)>> \o RemoveStrange(Tail(s))

RECURSIVE LStrip(_)
LStrip(s) == IF s # <<>> /\ Head(s) \in Spaces THEN LStrip(Tail(s)) ELSE s

RECURSIVE RStrip(_)
RStrip(s) ==
    IF s # <<>> /\ s[Len(s)] \in Spaces THEN RStrip(SubSeq(s, 1, Len(s) - 1)) ELSE s

\* text.strip()
Strip(s) == RStrip(LStrip(s))

\* normalize_text applied to a text
normalize_text(text) == Strip(RemoveStrange(CollapseSpaces(text)))

\* text.lower()
Lower(s) == [i \in 1..Len(s) |-> IF s[i] = "X" THEN "x" ELSE s[i]]

\* sub in s
Contains(s, sub) ==
    \E i \in 0..(Len(s) - Len(sub)) : SubSeq(s, i + 1, i + Len(sub)) = sub

RECURSIVE Split(_, _)
\* s.split(sep), sep one character
Split(s, sep) ==
    LET cuts == {i \in 1..Len(s) : s[i] = sep}
    IN  IF cuts = {} THEN <<s>>
        ELSE LET i == CHOOSE j \in cuts : \A k \in cuts : j <= k
             IN  <<SubSeq(s, 1, i - 1)>> \o Split(SubSeq(s, i + 1, Len(s)), sep)

DigitValue(c) ==
    CASE c = "0" -> 0 [] c = "1" -> 1 [] c = "2" -> 2 [] c = "3" -> 3 [] c = "4" -> 4
      [] c = "5" -> 5 [] c = "6" -> 6 [] c = "7" -> 7 [] c = "8" -> 8 [] c = "9" -> 9

\* int(text) succeeds: digits only, spaces around them allowed
IntParses(text) ==
    LET t == Strip(text) IN t # <<>> /\ \A i \in 1..Len(t) : t[i] \in Digits

RECURSIVE DigitsValue(_)
DigitsValue(t) ==
    IF t = <<>> THEN 0
    ELSE 10 * DigitsValue(SubSeq(t, 1, Len(t) - 1)) + DigitValue(t[Len(t)])

\* int(text), where it succeeds
IntOf(text) == DigitsValue(Strip(text))

(***************************************************************************)
(* utils.py: is_date_today                                                 *)
(***************************************************************************)
Date(y, m, d) == [year |-> y, month |-> m, day |-> d]

IsLeap(y) == (y % 4 = 0 /\ y % 100 # 0) \/ y % 400 = 0
DaysIn(y, m) ==
    IF m = 2 THEN (IF IsLeap(y) THEN 29 ELSE 28)
    ELSE IF m \in {4, 6, 9, 11} THEN 30 ELSE 31

\* datetime(year, month, day) does not raise ValueError
ValidDate(y, m, d) ==
    /\ 1 <= y /\ y <= 9999
    /\ 1 <= m /\ m <= 12
    /\ 1 <= d /\ d <= DaysIn(y, m)

\* the length of the run of 1 or 2 digits at s[i] that \d{1,2} takes when the
\* character after it must be c; 0 when there is none
DigitsThen(s, i, c) ==
    IF i + 2 <= Len(s) /\ s[i] \in Digits /\ s[i + 1] \in Digits /\ s[i + 2] = c THEN 2
    ELSE IF i + 1 <= Len(s) /\ s[i] \in Digits /\ s[i + 1] = c THEN 1
    ELSE 0

\* re.match(r'\d{1,2}/\d{1,2}/' + year digits, s): a match at the start of s,
\* followed by anything
MatchesDayMonthYear(s, yearDigits) ==
    LET a == DigitsThen(s, 1, "/")
        b == IF a = 0 THEN 0 ELSE DigitsThen(s, a + 2, "/")
        y == a + b + 3
    IN  /\ a > 0 /\ b > 0
        /\ y + yearDigits - 1 <= Len(s)
        /\ \A k \in 0..(yearDigits - 1) : s[y + k] \in Digits

\* the year a two-digit year stands for   (line 133)
YearOfTwoDigits(yy) == 2000 + yy

\* lines 131-137 and 141-147: split, build the date, compare
ParsedIsToday(s, today, base) ==
    LET parts == Split(s, "/")
    IN  /\ IntParses(parts[3]) /\ IntParses(parts[2]) /\ IntParses(parts[1])
        /\ LET y == IF base THEN YearOfTwoDigits(IntOf(parts[3])) ELSE IntOf(parts[3])
               m == IntOf(parts[2])
               d == IntOf(parts[1])
           IN  ValidDate(y, m, d) /\ Date(y, m, d) = today

\* is_date_today applied to a text, the clock showing `today`
is_date_today(date_str, today) ==
    IF date_str = <<>> THEN FALSE
    ELSE LET s == Lower(normalize_text(date_str))
         IN  IF Contains(s, <<"T">>) THEN TRUE
             ELSE IF MatchesDayMonthYear(s, 2) THEN ParsedIsToday(s, today, TRUE)
             ELSE IF MatchesDayMonthYear(s, 4) THEN ParsedIsToday(s, today, FALSE)
             ELSE FALSE

\* the frame of one is_date_today call
NewDateCall(date_str, today) ==
    [pc |-> "call", date_str |-> date_str, today |-> today, result |-> FALSE]
IdleDate == [NewDateCall(<<>>, Date(2000, 1, 1)) EXCEPT !.pc = "idle"]

(***************************************************************************)
(* zenrows_client.py: ZenRowsClient._make_request                          *)
(*                                                                         *)
(* What one requests.get can do: raise, or give a response with a status   *)
(* and a body.  A body is JSON (response.json() gives a value) or not.     *)
(***************************************************************************)
NoError == "<no error key>"
\* the status of a request that got no response: below every HTTP status
NoStatus == 0 - 1

\* a JSON object (a dict), with or without the key 'html'
JsonMap(hasHtml, html) ==
    [kind |-> "map", hasHtml |-> hasHtml, html |-> html,
     status_code |-> NoStatus, error |-> NoError]
\* a JSON value that is no object (null, a number, true): `'html' in data`
\* raises TypeError on it
JsonScalar ==
    [kind |-> "scalar", hasHtml |-> FALSE, html |-> EmptyHtml,
     status_code |-> NoStatus, error |-> NoError]
\* {"html": response.text, "status_code": response.status_code}   (line 161)
TextData(html, status) ==
    [kind |-> "map", hasHtml |-> TRUE, html |-> html,
     status_code |-> status, error |-> NoError]
\* {"html": "", "status_code": 500, "error": ...}   (lines 190, 194)
ErrorData(text) ==
    [kind |-> "map", hasHtml |-> TRUE, html |-> EmptyHtml,
     status_code |-> 500, error |-> text]

\* what response.json() raises on a body that is not JSON: requests' own
\* JSONDecodeError, which is a json.JSONDecodeError where requests decodes with
\* the standard library and is not where it decodes with simplejson
DecodeErrors == {"JSONDecodeError", "SimpleJSONDecodeError"}

\* a body: `val` is what response.json() gives when the body is JSON; when it is
\* not, `decode` is what response.json() raises and `text` is response.text
Bodies ==
    {[decode |-> "none", val |-> JsonMap(TRUE, h), text |-> EmptyHtml] : h \in Htmls}
    \cup {[decode |-> "none", val |-> JsonMap(FALSE, EmptyHtml), text |-> EmptyHtml],
          [decode |-> "none", val |-> JsonScalar, text |-> EmptyHtml]}
    \cup {[decode |-> d, val |-> JsonScalar, text |-> h] :
             d \in DecodeErrors, h \in {NoPhoneHtml, PhoneHtml}}

\* the body of a response whose body is never read
AnyBody == [decode |-> "none", val |-> JsonScalar, text |-> EmptyHtml]

\* the statuses explored: 1xx, 2xx, 3xx, 4xx, 5xx, and the two rate-limit ones
Statuses == {101, 200, 304, 404, 429, 500, 503}

\* exceptions requests.get can raise, by class
Raisable == {"ConnectionError", "Timeout", "TooManyRedirects", "ValueError"}

\* the class hierarchy of requests.exceptions (and the builtins)
Parent(c) ==
    CASE c = "ConnectionError" -> "RequestException"
      [] c = "Timeout" -> "RequestException"
      [] c = "HTTPError" -> "RequestException"
      [] c = "TooManyRedirects" -> "RequestException"
      [] c = "SimpleJSONDecodeError" -> "RequestException"
      [] c = "JSONDecodeError" -> "ValueError"
      [] c = "RequestException" -> "Exception"
      [] c = "ValueError" -> "Exception"
      [] c = "TypeError" -> "Exception"
      [] OTHER -> "BaseException"

RECURSIVE IsInstance(_, _)
IsInstance(e, c) ==
    \/ e = c
    \/ e # "BaseException" /\ IsInstance(Parent(e), c)

\* the except clauses of the retry loop, in order (lines 163-182)
NoCatchAll == <<"ConnectionError", "Timeout", "HTTPError", "RequestException">>
ExceptClauses ==
    <<"ConnectionError", "Timeout", "HTTPError", "RequestException", "Exception">>

\* does some clause of the loop catch e
Caught(e) == \E i \in 1..Len(ExceptClauses) : IsInstance(e, ExceptClauses[i])

\* response.status_code in (429, 503)   (line 141)
RateLimited(status) == status \in {429, 503}

\* response.raise_for_status() raises HTTPError   (line 151; requests raises for
\* 400 <= status < 600 and for nothing else)
RaisesOnlyServerErrors(status) == 500 <= status /\ status < 600
RaisesForStatus(status) == 400 <= status /\ status < 600

Outcomes ==
    {[exc |-> e, status |-> NoStatus, body |-> AnyBody] : e \in Raisable}
    \cup {[exc |-> "none", status |-> st, body |-> AnyBody] :
             st \in {x \in Statuses : RateLimited(x) \/ x >= 400}}
    \cup {[exc |-> "none", status |-> st, body |-> b] :
             st \in {x \in Statuses : ~RateLimited(x) /\ x < 400}, b \in Bodies}

\* str(e) of an exception, and the description of a rate-limit response
StrOf(e) == "error: " \o e
DescribeStatus(status) == IF status = 429 THEN "status 429" ELSE "status 503"

\* the frame at `retries = 0; last_exception = None`   (lines 132-133)
NewRequest(max_retries) ==
    [pc |-> "loop", max_retries |-> max_retries,
     retries |-> 0, last_exception |-> "None",
     ret |-> JsonScalar, raised |-> "none",
     \* history, not program state:
     requests |-> 0,         \* requests.get calls made
     sleeps |-> <<>>,        \* every time.sleep of the call
     lastFailure |-> "none", \* what the latest failed attempt failed with
     lastStatus |-> NoStatus]\* status of the latest response, if it gave one
IdleRequest == [NewRequest(0) EXCEPT !.pc = "idle"]

\* wait_time = self.backoff_factor ** retries, retries already incremented
\* (lines 143, 185)
WaitTimeOfPreviousCount(retries) == Backoff(retries - 1)
WaitTime(retries) == Backoff(retries)

\* retries += 1 on a 429 or 503   (line 142)
RetriesNotCounted(retries) == retries
RetriesAfterRateLimit(retries) == retries + 1

\* time.sleep(wait_time), recorded with the number of requests made before it
Slept(f, retries, cause) ==
    Append(f.sleeps,
           [after |-> f.requests + 1, dur |-> WaitTime(retries), cause |-> cause])

\* lines 141-148: a 429 or 503 response
AttemptRateLimited(f, status) ==
    LET r == RetriesAfterRateLimit(f.retries)
    IN  [f EXCEPT !.retries = r,
                  !.sleeps = Slept(f, r, "status"),
                  !.requests = f.requests + 1,
                  !.lastFailure = DescribeStatus(status),
                  !.lastStatus = status]

\* lines 163-190: exception e raised inside the try block
AttemptRaised(f, e, status) ==
    IF ~Caught(e)
    THEN [f EXCEPT !.pc = "done", !.raised = e,
                   !.requests = f.requests + 1,
                   !.lastFailure = StrOf(e), !.lastStatus = status]
    ELSE LET r == f.retries + 1
             g == [f EXCEPT !.retries = r,
                            !.last_exception = e,
                            !.requests = f.requests + 1,
                            !.lastFailure = StrOf(e),
                            !.lastStatus = status]
         IN  IF r < f.max_retries
             THEN [g EXCEPT !.sleeps = Slept(f, r, "exception")]
             ELSE [g EXCEPT !.pc = "done", !.ret = ErrorData(StrOf(e))]

\* except json.JSONDecodeError   (line 158)
DecodeErrorCaught(e) == IsInstance(e, "JSONDecodeError")

\* lines 153-161: the response passed both checks
AttemptPassed(f, status, body) ==
    IF body.decode # "none" /\ ~DecodeErrorCaught(body.decode)
    THEN AttemptRaised(f, body.decode, status)
    ELSE [f EXCEPT !.pc = "done",
                   !.requests = f.requests + 1,
                   !.lastStatus = status,
                   !.ret = IF body.decode = "none" THEN body.val
                           ELSE TextData(body.text, status)]

\* one pass through the body of the while loop, the attempt's outcome being o
Attempt(f, o) ==
    IF o.exc # "none" THEN AttemptRaised(f, o.exc, NoStatus)
    ELSE IF RateLimited(o.status) THEN AttemptRateLimited(f, o.status)
    ELSE IF RaisesForStatus(o.status) THEN AttemptRaised(f, "HTTPError", o.status)
    ELSE AttemptPassed(f, o.status, o.body)

\* lines 192-194: the while condition is false
LoopExit(f) ==
    [f EXCEPT !.pc = "done",
              !.ret = ErrorData(IF f.last_exception # "None"
                                THEN StrOf(f.last_exception)
                                ELSE "Unknown error")]

\* every frame one step after f
RequestSteps(f) ==
    IF f.pc # "loop" THEN {}
    ELSE IF f.retries < f.max_retries THEN {Attempt(f, o) : o \in Outcomes}
    ELSE {LoopExit(f)}

RECURSIVE RequestRuns(_, _)
\* the finished frames reachable from the frames F in at most k steps
RequestRuns(F, k) ==
    LET done == {f \in F : f.pc = "done"}
    IN  IF k = 0 \/ F = done THEN done
        ELSE done \cup RequestRuns(UNION {RequestSteps(f) : f \in F \ done}, k - 1)

\* every way a whole _make_request call can end, for a client with max_retries
MakeRequestResults(max_retries) ==
    RequestRuns({NewRequest(max_retries)}, max_retries + 1)

(***************************************************************************)
(* The actions of one _make_request call.                                  *)
(***************************************************************************)
Requesting == mr.pc = "loop" /\ mr.retries < mr.max_retries

GetRateLimited ==
    /\ Requesting
    /\ \E o \in Outcomes :
          /\ o.exc = "none" /\ RateLimited(o.status)
          /\ mr' = Attempt(mr, o)
    /\ UNCHANGED <<ph, run, dc, hc, oc, nc>>

GetRaises ==
    /\ Requesting
    /\ \E o \in Outcomes :
          /\ o.exc # "none"
          /\ mr' = Attempt(mr, o)
    /\ UNCHANGED <<ph, run, dc, hc, oc, nc>>

GetErrorStatus ==
    /\ Requesting
    /\ \E o \in Outcomes :
          /\ o.exc = "none" /\ ~RateLimited(o.status) /\ RaisesForStatus(o.status)
          /\ mr' = Attempt(mr, o)
    /\ UNCHANGED <<ph, run, dc, hc, oc, nc>>

GetSucceeds ==
    /\ Requesting
    /\ \E o \in Outcomes :
          /\ o.exc = "none" /\ ~RateLimited(o.status) /\ ~RaisesForStatus(o.status)
          /\ o.body.decode = "none" \/ DecodeErrorCaught(o.body.decode)
          /\ mr' = Attempt(mr, o)
    /\ UNCHANGED <<ph, run, dc, hc, oc, nc>>

GetUndecodable ==
    /\ Requesting
    /\ \E o \in Outcomes :
          /\ o.exc = "none" /\ ~RateLimited(o.status) /\ ~RaisesForStatus(o.status)
          /\ o.body.decode # "none" /\ ~DecodeErrorCaught(o.body.decode)
          /\ mr' = Attempt(mr, o)
    /\ UNCHANGED <<ph, run, dc, hc, oc, nc>>

RetriesUsedUp ==
    /\ mr.pc = "loop" /\ ~(mr.retries < mr.max_retries)
    /\ mr' = LoopExit(mr)
    /\ UNCHANGED <<ph, run, dc, hc, oc, nc>>

NextRender ==
    \/ GetRateLimited
    \/ GetRaises
    \/ GetErrorStatus
    \/ GetSucceeds
    \/ GetUndecodable
    \/ RetriesUsedUp

(***************************************************************************)
(* zenrows_client.py: ZenRowsClient.get_phone_number                       *)
(*                                                                         *)
(* fetch_html builds the parameters and returns what _make_request         *)
(* returns, so a render is one whole _make_request call of the shared      *)
(* client (max_retries = config.MAX_RETRIES).                              *)
(***************************************************************************)
RenderResults ==
    {[ret |-> f.ret, raised |-> f.raised] : f \in MakeRequestResults(MAX_RETRIES)}

\* the frame on entry to get_phone_number
NewPhone(phone_max_retries) ==
    [pc |-> "plain", phone_max_retries |-> phone_max_retries,
     retry |-> 0, phone |-> <<>>, raised |-> "none",
     \* history, not program state:
     renders |-> 0,     \* fetch_html calls made
     events |-> <<>>]   \* the renders and the pauses, in order
IdlePhone == [NewPhone(0) EXCEPT !.pc = "idle"]

\* random.uniform(self.min_delay, self.max_delay), in whole seconds
DelayChoices == MIN_DELAY..MAX_DELAY

\* `'html' in data` raises TypeError when data is no container
MembershipRaises(data) == data.kind = "scalar"

\* the phone found in what a render returned (lines 212-216, 237-241)
PhoneIn(data) ==
    IF data.hasHtml THEN extract_phone_number_from_html(data.html) ELSE <<>>

\* what a render gave, for the history
ClassOf(r) ==
    IF r.raised # "none" \/ MembershipRaises(r.ret) THEN "raised"
    ELSE IF PhoneIn(r.ret) # <<>> THEN "found"
    ELSE IF r.ret.status_code = 500 THEN "failed"
    ELSE IF r.ret.hasHtml THEN "no phone" ELSE "no html"

Rendered(g, kind, r) ==
    Append(g.events,
           [ev |-> kind, what |-> ClassOf(r),
            got |-> IF ClassOf(r) = "found" THEN PhoneIn(r.ret) ELSE <<>>,
            dur |-> 0])
Paused(events, d) ==
    Append(events, [ev |-> "delay", what |-> "pause", got |-> <<>>, dur |-> d])

\* lines 208-216: the plain render, r being the finished _make_request call
PlainAttempt(g, r) ==
    LET h == [g EXCEPT !.renders = g.renders + 1,
                       !.events = Rendered(g, "plain", r)]
    IN  IF r.raised # "none" THEN [h EXCEPT !.pc = "done", !.raised = r.raised]
        ELSE IF MembershipRaises(r.ret)
        THEN [h EXCEPT !.pc = "done", !.raised = "TypeError"]
        ELSE IF PhoneIn(r.ret) # <<>>
        THEN [h EXCEPT !.pc = "done", !.phone = PhoneIn(r.ret)]
        ELSE [h EXCEPT !.pc = "replay"]

\* for retry in range(config.PHONE_MAX_RETRIES)   (line 226)
InRangeInclusive(retry, phone_max_retries) == retry <= phone_max_retries
InRange(retry, phone_max_retries) == retry < phone_max_retries

\* if retry < config.PHONE_MAX_RETRIES - 1   (lines 244, 248)
DelayAlways(retry, phone_max_retries) == TRUE
WillRetry(retry, phone_max_retries) == retry < phone_max_retries - 1

\* lines 227-249: one pass of the for loop; the frames it can end in
ReplayAttempt(g, r) ==
    LET h == [g EXCEPT !.renders = g.renders + 1,
                       !.events = Rendered(g, "replay", r),
                       !.retry = g.retry + 1]
        after == IF WillRetry(g.retry, g.phone_max_retries)
                 THEN {[h EXCEPT !.events = Paused(h.events, d)] : d \in DelayChoices}
                 ELSE {h}
    IN  IF r.raised # "none" \/ MembershipRaises(r.ret) THEN after
        ELSE IF PhoneIn(r.ret) # <<>>
        THEN {[h EXCEPT !.pc = "done", !.phone = PhoneIn(r.ret)]}
        ELSE after

\* lines 251-252: the for loop is over
GiveUp(g) == [g EXCEPT !.pc = "done", !.phone = <<>>]

PhoneSteps(g) ==
    IF g.pc = "plain" THEN {PlainAttempt(g, r) : r \in RenderResults}
    ELSE IF g.pc = "replay"
    THEN IF InRange(g.retry, g.phone_max_retries)
         THEN UNION {ReplayAttempt(g, r) : r \in RenderResults}
         ELSE {GiveUp(g)}
    ELSE {}

(***************************************************************************)
(* The actions of one get_phone_number call.                               *)
(***************************************************************************)
PlainRender ==
    /\ ph.pc = "plain"
    /\ \E r \in RenderResults : ph' = PlainAttempt(ph, r)
    /\ UNCHANGED <<mr, run, dc, hc, oc, nc>>

Replaying == ph.pc = "replay" /\ InRange(ph.retry, ph.phone_max_retries)

ReplayRender ==
    /\ Replaying
    /\ \E r \in RenderResults :
          /\ ~MembershipRaises(r.ret)
          /\ ph' \in ReplayAttempt(ph, r)
    /\ UNCHANGED <<mr, run, dc, hc, oc, nc>>

ReplayRaises ==
    /\ Replaying
    /\ \E r \in RenderResults :
          /\ MembershipRaises(r.ret)
          /\ ph' \in ReplayAttempt(ph, r)
    /\ UNCHANGED <<mr, run, dc, hc, oc, nc>>

PhoneRetriesUsedUp ==
    /\ ph.pc = "replay" /\ ~InRange(ph.retry, ph.phone_max_retries)
    /\ ph' = GiveUp(ph)
    /\ UNCHANGED <<mr, run, dc, hc, oc, nc>>

NextPhone == PlainRender \/ ReplayRender \/ ReplayRaises \/ PhoneRetriesUsedUp

(***************************************************************************)
(* utils.py: listings.  A listing is a function from the keys it has to    *)
(* their texts.  "A" stands for the first agency indicator word, the text  *)
(* "R/M" for the indicator that holds a slash; "H" stands for the prefix   *)
(* 'https://www.yad2.co.il' of an absolute URL.                            *)
(***************************************************************************)
KeyOrder ==
    <<"merchantType", "adType", "merchantName", "contact_name", "date",
      "address", "description", "link", "url", "id">>

\* listing.get(key, '')
Get(listing, key) == IF key \in DOMAIN listing THEN listing[key] ELSE <<>>

NoIndicators == {}
agency_indicators == {<<"A">>, <<"R", "/", "M">>}

DigitChar(n) ==
    CASE n = 0 -> "0" [] n = 1 -> "1" [] n = 2 -> "2" [] n = 3 -> "3" [] n = 4 -> "4"
      [] n = 5 -> "5" [] n = 6 -> "6" [] n = 7 -> "7" [] n = 8 -> "8" [] n = 9 -> "9"

\* a value of a record of the payload: a text, a small number or null
Text(text) == [kind |-> "str", text |-> text, n |-> 0]
Number(n) == [kind |-> "int", text |-> <<>>, n |-> n]
None == [kind |-> "none", text |-> <<>>, n |-> 0]

\* an element of the listings: a record, or a value that is no dict
Record(items) == [dict |-> TRUE, items |-> items]
NotADict == [dict |-> FALSE, items |-> <<>>]

\* listing.get(key, '')
GetValue(record, key) ==
    IF key \in DOMAIN record.items THEN record.items[key] ELSE Text(<<>>)

\* `if value:`
Truthy(value) ==
    CASE value.kind = "str" -> value.text # <<>>
      [] value.kind = "int" -> value.n # 0
      [] value.kind = "none" -> FALSE

\* str(value)
StrOfValue(value) ==
    CASE value.kind = "str" -> value.text
      [] value.kind = "int" -> <<DigitChar(value.n)>>
      [] value.kind = "none" -> <<"N", "o", "n", "e">>

\* any(indicator in name for indicator in agency_indicators), name a text
NamesAgency(name) == \E indicator \in agency_indicators : Contains(name.text, indicator)

\* `indicator in name` raises TypeError when name is no text
InRaises(name) == name.kind # "str" /\ agency_indicators # {}

\* is_private_owner: what it returns, and whether the except clause of lines
\* 189-191 was entered
InspectOwner(listing) ==
    LET merchant_type == GetValue(listing, "merchantType")
        ad_type == GetValue(listing, "adType")
        merchant_name == GetValue(listing, "merchantName")
        contact_name == GetValue(listing, "contact_name")
    IN  IF ~listing.dict THEN [result |-> TRUE, raised |-> TRUE]
        ELSE IF Truthy(merchant_type)
        THEN [result |-> StrOfValue(merchant_type) = <<"1">>, raised |-> FALSE]
        ELSE IF Truthy(ad_type)
        THEN [result |-> StrOfValue(ad_type) = <<"1">>, raised |-> FALSE]
        ELSE IF InRaises(merchant_name) THEN [result |-> TRUE, raised |-> TRUE]
        ELSE IF NamesAgency(merchant_name) THEN [result |-> FALSE, raised |-> FALSE]
        ELSE IF InRaises(contact_name) THEN [result |-> TRUE, raised |-> TRUE]
        ELSE IF NamesAgency(contact_name) THEN [result |-> FALSE, raised |-> FALSE]
        ELSE [result |-> TRUE, raised |-> FALSE]

\* is_private_owner of a listing whose values are all texts
is_private_owner(listing) ==
    InspectOwner(Record([key \in DOMAIN listing |-> Text(listing[key])])).result

\* the frame of one is_private_owner evaluation
NewOwnerCall(listing) ==
    [pc |-> "call", listing |-> listing, result |-> FALSE, raised |-> FALSE]
IdleOwner == [NewOwnerCall(NotADict) EXCEPT !.pc = "idle"]

RECURSIVE ReprItems(_, _)
\* the items of str(listing): 'key': 'value', joined by ", "; a key's name is
\* written as the one letter k
ReprItems(listing, keys) ==
    IF keys = <<>> THEN <<>>
    ELSE IF Head(keys) \notin DOMAIN listing THEN ReprItems(listing, Tail(keys))
    ELSE LET rest == ReprItems(listing, Tail(keys))
             item == <<"'", "k", "'", ":", " ", "'">> \o listing[Head(keys)] \o <<"'">>
         IN  IF rest = <<>> THEN item ELSE item \o <<",", " ">> \o rest

\* str(listing), which normalize_text takes of an argument that is no str
\* (lines 58-59)
StrOfListing(listing) == <<"{">> \o ReprItems(listing, KeyOrder) \o <<"}">>

\* the argument main.py gives is_date_today: the listing itself   (line 107)
DateArgument(listing) == StrOfListing(listing)

\* is_date_today(listing) as run_scraper_for_user calls it: an empty dict is
\* falsy (line 115), any other is turned into its str()
ListingIsToday(listing, today) ==
    IF DOMAIN listing = {} THEN FALSE
    ELSE is_date_today(DateArgument(listing), today)

RECURSIVE Padded(_, _)
\* n written with `width` digits
Padded(n, width) ==
    IF width = 0 THEN <<>> ELSE Padded(n \div 10, width - 1) \o <<DigitChar(n % 10)>>

\* get_current_date(): strftime('%Y-%m-%d')
get_current_date(today) ==
    Padded(today.year, 4) \o <<"-">> \o Padded(today.month, 2)
        \o <<"-">> \o Padded(today.day, 2)

\* generate_listing_id: the MD5 digest of "phone|address|date", written as the
\* text it digests (two digests are equal exactly when the texts are)
IdOfAddressAndDate(phone, address, date_str) ==
    [md5 |-> address \o <<"|">> \o date_str]
generate_listing_id(phone, address, date_str) ==
    [md5 |-> phone \o <<"|">> \o address \o <<"|">> \o date_str]

\* the frame of two evaluations of generate_listing_id, on the triples a and b
NewHashCall(a, b) ==
    [pc |-> "call", a |-> a, b |-> b,
     id_a |-> generate_listing_id(<<>>, <<>>, <<>>),
     id_b |-> generate_listing_id(<<>>, <<>>, <<>>)]
IdleHash ==
    [NewHashCall([phone |-> <<>>, address |-> <<>>, date_str |-> <<>>],
                 [phone |-> <<>>, address |-> <<>>, date_str |-> <<>>])
        EXCEPT !.pc = "idle"]

\* listing_url.startswith('http')
StartsWithHttp(u) == u # <<>> /\ u[1] = "H"

\* lines 476-487: the listing's URL
ListingUrl(listing) ==
    IF "link" \in DOMAIN listing
    THEN IF StartsWithHttp(listing["link"]) THEN listing["link"]
         ELSE <<"H">> \o listing["link"]
    ELSE IF "url" \in DOMAIN listing
    THEN IF StartsWithHttp(listing["url"]) THEN listing["url"]
         ELSE <<"H">> \o listing["url"]
    ELSE IF "id" \in DOMAIN listing
    THEN <<"H", "/", "i", "t", "e", "m", "/">> \o listing["id"]
    ELSE <<>>

NoLead == [none |-> TRUE]

\* lines 497-512: the result dictionary (the fields copied from the listing
\* without use are left out, as is the timestamp)
Lead(listing, phone, today) ==
    [id |-> generate_listing_id(phone, normalize_text(Get(listing, "address")),
                                get_current_date(today)),
     address |-> normalize_text(Get(listing, "address")),
     publish_date |-> normalize_text(Get(listing, "date")),
     owner_name |-> IF "contact_name" \in DOMAIN listing
                    THEN normalize_text(listing["contact_name"])
                    ELSE normalize_text(Get(listing, "merchantName")),
     phone_number |-> phone,
     listing_url |-> ListingUrl(listing)]

RECURSIVE PhoneRuns(_, _)
\* the finished get_phone_number frames reachable from the frames F in k steps
PhoneRuns(F, k) ==
    LET done == {g \in F : g.pc = "done"}
    IN  IF k = 0 \/ F = done THEN done
        ELSE done \cup PhoneRuns(UNION {PhoneSteps(g) : g \in F \ done}, k - 1)

\* every way zenrows_client.get_phone_number(listing_url) can end
\* (with, for the history, the number of renders and whether one of them gave
\* markup with a phone in it)
PhoneResults ==
    {[phone |-> g.phone, raised |-> g.raised, renders |-> g.renders,
      found |-> \E i \in 1..Len(g.events) : g.events[i].what = "found"] :
        g \in PhoneRuns({NewPhone(PHONE_MAX_RETRIES)}, PHONE_MAX_RETRIES + 2)}

\* get_phone_number is not called for a listing without URL   (lines 490-492)
NoPhoneCall == [phone |-> <<>>, raised |-> "none", renders |-> 0, found |-> FALSE]

\* the ways the phone lookup of extract_listing_data can end
PhoneLookups(listing) ==
    IF ListingUrl(listing) # <<>> THEN PhoneResults ELSE {NoPhoneCall}

\* extract_listing_data, the phone lookup ending as pr: the Lead, or NoLead
\* for None
ExtractOnlyWithPhone(listing, pr, today) ==
    IF DOMAIN listing = {} \/ pr.raised # "none" \/ pr.phone = <<>> THEN NoLead
    ELSE Lead(listing, pr.phone, today)
extract_listing_data(listing, pr, today) ==
    IF DOMAIN listing = {} THEN NoLead
    ELSE IF pr.raised # "none" THEN NoLead
    ELSE Lead(listing, pr.phone, today)

(***************************************************************************)
(* utils.py: the page's payload and its listings.                          *)
(*                                                                         *)
(* A JSON value is null, a scalar that is not null (a number, true), a     *)
(* list or a dict.  No string and no dict stands where listings are looked *)
(* for in the payloads modelled.                                           *)
(***************************************************************************)
Null == [kind |-> "null"]
Scalar == [kind |-> "scalar"]
List(items) == [kind |-> "list", items |-> items]
Dict(map) == [kind |-> "dict", map |-> map]
EmptyDict == Dict(<<>>)

\* `not value`
Falsy(value) ==
    \/ value.kind = "null"
    \/ value.kind = "list" /\ value.items = <<>>
    \/ value.kind = "dict" /\ DOMAIN value.map = {}

\* `key in value`: "yes", "no", or the TypeError it raises on a value that is
\* no container
KeyIn(key, value) ==
    IF value.kind = "dict"
    THEN IF key \in DOMAIN value.map THEN "yes" ELSE "no"
    ELSE IF value.kind = "list" THEN "no"
    ELSE "TypeError"

\* `a in value and b in value[a]`
KeysIn(a, b, value) ==
    IF KeyIn(a, value) = "yes" THEN KeyIn(b, value.map[a]) ELSE KeyIn(a, value)

\* len(value) raises TypeError on null and on a scalar
HasLen(value) == value.kind \in {"list", "dict"}

\* lines 422-424, 428-430, 434-436: the value found at a path is returned as
\* it is once len() of it was logged; the TypeError of len() ends the call
\* with []   (lines 440-442)
Found(listings) == IF HasLen(listings) THEN listings.items ELSE <<>>

\* lines 420-439: the three paths, props being the pageProps value
ListingsOfProps(props) ==
    IF KeysIn("searchResults", "results", props) = "TypeError" THEN <<>>
    ELSE IF KeysIn("searchResults", "results", props) = "yes"
    THEN Found(props.map["searchResults"].map["results"])
    ELSE IF KeysIn("feed", "feed", props) = "TypeError" THEN <<>>
    ELSE IF KeysIn("feed", "feed", props) = "yes"
    THEN Found(props.map["feed"].map["feed"])
    ELSE IF KeyIn("items", props) = "TypeError" THEN <<>>
    ELSE IF KeyIn("items", props) = "yes"
    THEN Found(props.map["items"])
    ELSE <<>>

\* extract_listings_from_nextjs_data
extract_listings_from_nextjs_data(nextjs_data) ==
    IF Falsy(nextjs_data) THEN <<>>
    ELSE IF KeysIn("props", "pageProps", nextjs_data) = "TypeError" THEN <<>>
    ELSE IF KeysIn("props", "pageProps", nextjs_data) = "yes"
    THEN ListingsOfProps(nextjs_data.map["props"].map["pageProps"])
    ELSE IF KeyIn("pageProps", nextjs_data) = "yes"
    THEN ListingsOfProps(nextjs_data.map["pageProps"])
    ELSE <<>>

(***************************************************************************)
(* The markup of the search page, as extract_nextjs_data reads it: whether *)
(* NEXTJS_DATA_PATTERN matches, whether json.loads takes the first match   *)
(* and what it gives, and whether a script[src*="/_next/data/"] is there.  *)
(***************************************************************************)
\* the script is not in the markup (or spans lines, which `.` does not match)
NoScript == [found |-> FALSE, parses |-> FALSE, value |-> Null]
\* the script's text is not JSON
BadScript == [found |-> TRUE, parses |-> FALSE, value |-> Null]
GoodScript(value) == [found |-> TRUE, parses |-> TRUE, value |-> value]

SearchPage(next_data, data_src) ==
    [empty |-> FALSE, next_data |-> next_data, data_src |-> data_src]
\* html_content = ''
NoPage == [empty |-> TRUE, next_data |-> NoScript, data_src |-> FALSE]

\* what main.py reads of the data a render r of the search page returned, the
\* page rendered being `page`: utils.fetch_yad2_data gives {} for it unless it
\* is a dict with the key 'html' (utils.py lines 280-290); `failed` tells the
\* response _make_request gives when every attempt failed
PageDataIgnoringFailure(r, page) ==
    IF r.raised = "none" /\ r.ret.kind = "map" /\ r.ret.hasHtml
    THEN [hasHtml |-> TRUE, failed |-> r.ret.status_code = 500, html |-> page]
    ELSE [hasHtml |-> FALSE, failed |-> FALSE, html |-> NoPage]
PageData(r, page) ==
    IF r.raised = "none" /\ r.ret.kind = "map" /\ r.ret.hasHtml
    THEN [hasHtml |-> TRUE, failed |-> r.ret.status_code = 500,
          html |-> IF r.ret.html = EmptyHtml THEN NoPage ELSE page]
    ELSE [hasHtml |-> FALSE, failed |-> FALSE, html |-> NoPage]

\* data.get("html", "")   (main.py line 90)
HtmlContent(data) == IF data.hasHtml THEN data.html ELSE NoPage

\* what the fetch r of the data endpoint gives extract_nextjs_data, the
\* endpoint serving the JSON object `served`: an answer without the key 'html'
\* is that object (a fetch that raises gives no payload, as null does)
DataOf(r, served) ==
    IF r.raised # "none" THEN Null
    ELSE IF r.ret.kind = "scalar" THEN Scalar
    ELSE IF r.ret.hasHtml THEN Dict("html" :> Null)
    ELSE served

\* lines 366-372: strategy 1 gives a payload
EmbeddedParses(html_content) ==
    html_content.next_data.found /\ html_content.next_data.parses

\* lines 368-370: a match that json.loads rejects raises, and the except
\* clause of lines 392-394 ends the call
EmbeddedRaises(html_content) ==
    html_content.next_data.found /\ ~html_content.next_data.parses

\* lines 375-384: the secondary fetch is made
FetchesData(html_content) ==
    /\ ~html_content.empty
    /\ ~html_content.next_data.found
    /\ html_content.data_src

\* line 386: data and 'pageProps' in data   (a TypeError gives {} as well)
Accepted(data) == ~Falsy(data) /\ KeyIn("pageProps", data) = "yes"

\* extract_nextjs_data, `data` being what the secondary fetch returns if it
\* is made
extract_nextjs_data(html_content, data) ==
    IF html_content.empty THEN EmptyDict
    ELSE IF EmbeddedParses(html_content) THEN html_content.next_data.value
    ELSE IF EmbeddedRaises(html_content) THEN EmptyDict
    ELSE IF FetchesData(html_content) /\ Accepted(data) THEN data
    ELSE EmptyDict

(***************************************************************************)
(* db.py: Database.save_lead; main.py: run_scraper_for_user.               *)
(***************************************************************************)
\* how the database behaves during one save_lead call: it works, a statement
\* (or the reconnect) raises and the rollback works, or the rollback raises too
SaveOutcomes == {"works", "raises", "rollback raises"}

\* the row of the leads table for (user_id, yad2_listing_id), as a set
ExistingLead(db, user_id, lead) ==
    {row \in db : row.user_id = user_id /\ row.yad2_listing_id = lead.id}

\* save_lead: the table after the call, what it returns (0 for None), and
\* whether it raised
save_lead(db, next_id, user_id, lead, outcome) ==
    IF outcome = "rollback raises"
    THEN [db |-> db, next_id |-> next_id, lead_id |-> 0, raised |-> TRUE]
    ELSE IF outcome = "raises"
    THEN [db |-> db, next_id |-> next_id, lead_id |-> 0, raised |-> FALSE]
    ELSE IF ExistingLead(db, user_id, lead) # {}
    THEN [db |-> db, next_id |-> next_id, raised |-> FALSE,
          lead_id |-> (CHOOSE row \in ExistingLead(db, user_id, lead) : TRUE).lead_id]
    ELSE [db |-> db \cup {[user_id |-> user_id, yad2_listing_id |-> lead.id,
                           phone_number |-> lead.phone_number,
                           address |-> lead.address,
                           listing_url |-> lead.listing_url,
                           lead_id |-> next_id]},
          next_id |-> next_id + 1, lead_id |-> next_id, raised |-> FALSE]

RunToday == Date(2024, 3, 15)

TodayText == <<"1", "5", "/", "0", "3", "/", "2", "4">>
YesterdayText == <<"1", "4", "/", "0", "3", "/", "2", "4">>
RelativeLink == <<"/", "i">>

\* the listings a page is made of
ListingSamples ==
    {
     \* a private listing dated with the word for today
     [merchantType |-> <<"1">>, date |-> <<"T">>, address |-> <<"a">>,
      link |-> RelativeLink],
     \* the same, dated today as D/M/Y
     [merchantType |-> <<"1">>, date |-> TodayText, address |-> <<"a">>,
      link |-> RelativeLink],
     \* the same, dated yesterday
     [merchantType |-> <<"1">>, date |-> YesterdayText, address |-> <<"a">>,
      link |-> RelativeLink],
     \* dated yesterday, with the word for today in its description
     [merchantType |-> <<"1">>, date |-> YesterdayText, address |-> <<"a">>,
      description |-> <<"x", " ", "T">>, link |-> RelativeLink],
     \* the same listing from an agency
     [merchantType |-> <<"2">>, date |-> <<"T">>, address |-> <<"a">>,
      link |-> RelativeLink],
     \* no type field, an agency's name
     [merchantName |-> <<"x", "A">>, date |-> <<"T">>, address |-> <<"b">>,
      link |-> RelativeLink],
     \* no type field, a person's name, the URL built from the id
     [contact_name |-> <<"X", "x">>, date |-> <<"T">>, address |-> <<"b">>,
      id |-> <<"7">>],
     \* private by adType, an absolute URL
     [adType |-> <<"1">>, date |-> <<"T", " ", "x">>, address |-> <<" ", "b">>,
      url |-> <<"H", "/", "j">>],
     \* no link, url or id
     [merchantType |-> <<"1">>, date |-> <<"T">>, address |-> <<"c">>]
    }

RECURSIVE SeqsUpTo(_, _)
\* the sequences over S of length at most n
SeqsUpTo(S, n) ==
    IF n = 0 THEN {<<>>}
    ELSE LET shorter == SeqsUpTo(S, n - 1)
         IN  shorter \cup {Append(q, x) : q \in {r \in shorter : Len(r) = n - 1}, x \in S}

NoVisit ==
    [index |-> 0, private |-> FALSE, today |-> FALSE, lead |-> NoLead,
     handed |-> FALSE, renders |-> 0, found |-> FALSE, lookup_raised |-> FALSE,
     lead_id |-> 0, inserted |-> FALSE,
     dated |-> FALSE]     \* whether the date check was evaluated for it

\* what the site serves: the search page, and the JSON object of the data
\* endpoint the page may name
Site(page, served) == [page |-> page, served |-> served]

\* the three places of the listings in pageProps, and the two of pageProps
AtSearchResults(value) == Dict("searchResults" :> Dict("results" :> value))
AtFeed(value) == Dict("feed" :> Dict("feed" :> value))
AtItems(value) == Dict("items" :> value)
UnderProps(props) == Dict("props" :> Dict("pageProps" :> props))
UnderPageProps(props) == Dict("pageProps" :> props)

\* the frame of run_scraper_for_user on entry (line 68), the table being db
NewRun(user_id, site, today, db, next_id) ==
    [pc |-> "fetch", user_id |-> user_id, today |-> today,
     data |-> PageData([ret |-> JsonScalar, raised |-> "none"], NoPage),
     nextjs_data |-> EmptyDict, listings |-> <<>>,
     i |-> 1, processed_count |-> 0, saved_count |-> 0,
     db |-> db, next_id |-> next_id, raised |-> FALSE,
     \* the world, and history; not program state:
     site |-> site,
     db0 |-> db,          \* the table when the run started
     runs |-> 1,          \* runs made on the database, this one included
     emitted |-> {},      \* the Leads extracted in these runs: of what, when
     page_renders |-> 0,  \* renders of the search page made
     data_fetches |-> 0,  \* fetches of the data endpoint made
     handed |-> 0,        \* save_lead calls made
     renders |-> 0,       \* renders of listing pages made
     last |-> NoVisit]    \* what happened to the listing visited last
IdleRun ==
    [NewRun(0, Site(NoPage, EmptyDict), RunToday, {}, 1) EXCEPT !.pc = "idle"]

\* lines 74-90: the search page is rendered, r being the finished render
FetchedPage(f, r) ==
    [f EXCEPT !.pc = "locate",
              !.data = PageData(r, f.site.page),
              !.page_renders = f.page_renders + 1]

\* lines 91-95: the payload is located, r being the finished fetch of the
\* data endpoint if one is made
LocatedPayload(f, r) ==
    LET html_content == HtmlContent(f.data)
    IN  [f EXCEPT !.pc = "listings",
                  !.nextjs_data =
                      extract_nextjs_data(html_content, DataOf(r, f.site.served)),
                  !.data_fetches =
                      IF FetchesData(html_content) THEN f.data_fetches + 1
                      ELSE f.data_fetches]

\* lines 98-101
LocatedListings(f) ==
    [f EXCEPT !.pc = "loop",
              !.listings = extract_listings_from_nextjs_data(f.nextjs_data)]

\* lines 105-107: the listing fails a filter
Skipped(r, private, today) ==
    [r EXCEPT !.i = r.i + 1,
              !.last = [NoVisit EXCEPT !.index = r.i, !.private = private,
                                       !.today = today, !.dated = private]]

\* lines 108-115: the listing passed both filters; pr is how its phone lookup
\* ends and outcome how the database behaves
Processed(r, pr, outcome) ==
    LET listing == r.listings[r.i]
        listing_data == extract_listing_data(listing, pr, r.today)
        counted == [r EXCEPT !.i = r.i + 1,
                             !.processed_count = r.processed_count + 1,
                             !.renders = r.renders + pr.renders,
                             !.emitted =
                                 IF listing_data = NoLead THEN r.emitted
                                 ELSE r.emitted \cup {[listing |-> listing,
                                                       today |-> r.today,
                                                       id |-> listing_data.id]}]
        visit == [NoVisit EXCEPT !.index = r.i, !.private = TRUE, !.today = TRUE,
                                 !.dated = TRUE,
                                 !.renders = pr.renders, !.found = pr.found,
                                 !.lookup_raised = pr.raised # "none"]
    IN  IF listing_data = NoLead
        THEN [counted EXCEPT !.last = visit]
        ELSE LET saved == save_lead(r.db, r.next_id, r.user_id, listing_data, outcome)
                 v == [visit EXCEPT !.lead = listing_data, !.handed = TRUE,
                                    !.lead_id = saved.lead_id,
                                    !.inserted = saved.db # r.db]
                 h == [counted EXCEPT !.handed = r.handed + 1, !.last = v,
                                      !.db = saved.db, !.next_id = saved.next_id]
             IN  IF saved.raised
                 \* lines 121-122: the exception ends the run
                 THEN [h EXCEPT !.pc = "done", !.raised = TRUE]
                 ELSE IF saved.lead_id # 0
                 THEN [h EXCEPT !.saved_count = r.saved_count + 1]
                 ELSE h

FetchPage ==
    /\ run.pc = "fetch"
    /\ \E r \in RenderResults : run' = FetchedPage(run, r)
    /\ UNCHANGED <<mr, ph, dc, hc, oc, nc>>

LocatePayload ==
    /\ run.pc = "locate"
    /\ \E r \in RenderResults : run' = LocatedPayload(run, r)
    /\ UNCHANGED <<mr, ph, dc, hc, oc, nc>>

LocateListings ==
    /\ run.pc = "listings"
    /\ run' = LocatedListings(run)
    /\ UNCHANGED <<mr, ph, dc, hc, oc, nc>>

Looping == run.pc = "loop" /\ run.i <= Len(run.listings)

PassesOwnerFilterOnly(listing, today) == is_private_owner(listing)

\* lines 105 and 107: the two conditions around the body of the loop
PassesFilters(listing, today) ==
    is_private_owner(listing) /\ ListingIsToday(listing, today)

SkipNotPrivate ==
    /\ Looping
    /\ ~is_private_owner(run.listings[run.i])
    /\ run' = Skipped(run, FALSE, FALSE)
    /\ UNCHANGED <<mr, ph, dc, hc, oc, nc>>

SkipNotToday ==
    /\ Looping
    /\ is_private_owner(run.listings[run.i])
    /\ ~ListingIsToday(run.listings[run.i], run.today)
    /\ run' = Skipped(run, TRUE, FALSE)
    /\ UNCHANGED <<mr, ph, dc, hc, oc, nc>>

ProcessListing ==
    /\ Looping
    /\ PassesFilters(run.listings[run.i], run.today)
    /\ \E pr \in PhoneLookups(run.listings[run.i]), outcome \in SaveOutcomes :
          run' = Processed(run, pr, outcome)
    /\ UNCHANGED <<mr, ph, dc, hc, oc, nc>>

\* line 119: the loop is over
FinishRun ==
    /\ run.pc = "loop" /\ run.i > Len(run.listings)
    /\ run' = [run EXCEPT !.pc = "done"]
    /\ UNCHANGED <<mr, ph, dc, hc, oc, nc>>

\* the day after
Tomorrow(date) ==
    IF date.day < DaysIn(date.year, date.month)
    THEN Date(date.year, date.month, date.day + 1)
    ELSE IF date.month < 12 THEN Date(date.year, date.month + 1, 1)
    ELSE Date(date.year + 1, 1, 1)

\* the users with an active subscription
Users == {1, 2}

\* run_scraper_all_users calls run_scraper_for_user for the next user, or the
\* schedule does so on a later day; every run works on the same database
StartedRun(f, user_id, site, today) ==
    [NewRun(user_id, site, today, f.db, f.next_id) EXCEPT
        !.runs = f.runs + 1, !.emitted = f.emitted]

NextLocate == FetchPage \/ LocatePayload \/ LocateListings

Next ==
    \/ FetchPage
    \/ LocatePayload
    \/ LocateListings
    \/ SkipNotPrivate
    \/ SkipNotToday
    \/ ProcessListing
    \/ FinishRun

(***************************************************************************)
(* Two evaluations of generate_listing_id.                                 *)
(***************************************************************************)
HashBoth ==
    /\ hc.pc = "call"
    /\ hc' = [hc EXCEPT
                 !.pc = "done",
                 !.id_a = generate_listing_id(hc.a.phone, hc.a.address, hc.a.date_str),
                 !.id_b = generate_listing_id(hc.b.phone, hc.b.address, hc.b.date_str)]
    /\ UNCHANGED <<mr, ph, run, dc, oc, nc>>

NextHash == HashBoth

\* the triples hashed: phones, addresses and dates, with and without the
\* separator in them
HashTriples ==
    {[phone |-> phone, address |-> address, date_str |-> date_str] :
        phone \in {<<>>, <<"0">>, <<"0", "|", "a">>,
                   <<"0", "5", "2", "-", "1", "2", "3", "-", "4", "5", "6", "7">>},
        address \in {<<>>, <<"a">>, <<"b">>, <<"a", "|", "b">>},
        date_str \in {get_current_date(RunToday), get_current_date(Tomorrow(RunToday))}}

(***************************************************************************)
(* One evaluation of is_private_owner.                                     *)
(***************************************************************************)
ClassifyOwner ==
    /\ oc.pc = "call"
    /\ oc' = [oc EXCEPT !.pc = "done",
                        !.result = InspectOwner(oc.listing).result,
                        !.raised = InspectOwner(oc.listing).raised]
    /\ UNCHANGED <<mr, ph, run, dc, hc, nc>>

NextOwner == ClassifyOwner

\* a key the record does not have
Absent == [kind |-> "absent", text |-> <<>>, n |-> 0]

\* what merchantType and adType hold, and the two names
TypeValues ==
    {Absent, None, Text(<<>>), Text(<<"1">>), Text(<<"2">>),
     Number(0), Number(1), Number(2)}
NameValues ==
    {Absent, None, Text(<<>>), Text(<<"X", "x">>), Text(<<"x", "A">>),
     Text(<<"R", "/", "M", " ", "x">>)}

\* the record that holds the values given which are not Absent
RecordOf(values) ==
    Record([key \in {k \in DOMAIN values : values[k] # Absent} |-> values[key]])

OwnerListings ==
    {RecordOf([merchantType |-> mt, adType |-> at, merchantName |-> mn,
               contact_name |-> cn]) :
        mt \in TypeValues, at \in TypeValues, mn \in NameValues, cn \in NameValues}
    \cup {NotADict}

(***************************************************************************)
(* normalize_phone_number, on a text and then on what it gave.             *)
(***************************************************************************)
NormalizeOnce ==
    /\ nc.pc = "call"
    /\ nc' = [nc EXCEPT !.pc = "again", !.once = normalize_phone_number(nc.phone)]
    /\ UNCHANGED <<mr, ph, run, dc, hc, oc>>

NormalizeAgain ==
    /\ nc.pc = "again"
    /\ nc' = [nc EXCEPT !.pc = "done", !.twice = normalize_phone_number(nc.once)]
    /\ UNCHANGED <<mr, ph, run, dc, hc, oc>>

NextNormalize == NormalizeOnce \/ NormalizeAgain

\* n digits, the first being `first`
DigitRun(n, first) == [i \in 1..n |-> DigitChar((first + i - 1) % 10)]

\* the ways a number is written
Writings == {"bare", "dashes", "prefix", "letters"}

RECURSIVE Dashed(_)
\* a dash after every third character
Dashed(digits) ==
    IF Len(digits) <= 3 THEN digits
    ELSE SubSeq(digits, 1, 3) \o <<"-">> \o Dashed(SubSeq(digits, 4, Len(digits)))

Written(digits, writing) ==
    CASE writing = "bare" -> digits
      [] writing = "dashes" -> Dashed(digits)
      [] writing = "prefix" -> <<"+", " ", "(">> \o digits \o <<")">>
      [] writing = "letters" -> <<"x">> \o digits \o <<" ", "x">>

\* the texts normalized: up to MaxDigits digits, written in each way, and the
\* two texts the spec names
PhoneTexts ==
    {Written(DigitRun(n, first), writing) :
        n \in 0..MaxDigits, first \in {0, 5}, writing \in Writings}
    \cup {<<"0", "5", "2", "-", "1", "2", "3", "-", "4", "5", "6", "7">>,
          <<"1", "2", "3">>, <<"0", "4", "-", "8", "1", "2", "-", "3", "4", "5", "6">>}

(***************************************************************************)
(* One evaluation of is_date_today.                                        *)
(***************************************************************************)
\* the days the clock (datetime.now().date()) is taken to show
Todays ==
    {Date(2024, 3, 15), Date(2024, 3, 14), Date(2024, 3, 5), Date(2024, 2, 29),
     Date(2000, 1, 1), Date(2026, 11, 1)}

DateTexts ==
    {<<>>,
     <<"T">>,
     <<"x", " ", "T">>,
     <<"x">>,
     <<"1", "5", "/", "0", "3", "/", "2", "4">>,
     <<"1", "5", "/", "0", "3", "/", "2", "0", "2", "4">>,
     <<"1", "4", "/", "0", "3", "/", "2", "4">>,
     <<"1", "4", "/", "0", "3", "/", "2", "0", "2", "4">>,
     <<"5", "/", "3", "/", "2", "4">>,
     <<"0", "5", "/", "0", "3", "/", "2", "0", "2", "4">>,
     <<"2", "9", "/", "0", "2", "/", "2", "4">>,
     <<"3", "0", "/", "0", "2", "/", "2", "4">>,
     <<"1", "/", "1", "/", "0", "0">>,
     <<"0", "1", "/", "0", "1", "/", "2", "0", "0", "0">>,
     <<"1", "/", "1", "1", "/", "2", "6">>,
     <<"0", "1", "/", "1", "1", "/", "2", "0", "2", "6">>,
     <<" ", "1", "5", "/", "0", "3", "/", "2", "4", " ">>,
     <<"1", "5", "/", "0", "3", "/", "2", "4", " ", "x">>,
     <<"1", "5", "/", "0", "3", "/", "2", "4", "/", "x">>,
     <<"~e", "1", "5", "/", "0", "3", "/", "2", "4">>,
     <<"1", "5", "/", "1", "3", "/", "2", "4">>,
     <<"1", "5", "/", "0", "3", "/", "9", "9", "9", "9">>,
     <<"1", "5", "-", "0", "3", "-", "2", "4">>}

ClassifyDate ==
    /\ dc.pc = "call"
    /\ dc' = [dc EXCEPT !.pc = "done", !.result = is_date_today(dc.date_str, dc.today)]
    /\ UNCHANGED <<mr, ph, run, hc, oc, nc>>

NextDate == ClassifyDate

InitDate ==
    /\ dc \in {NewDateCall(t, d) : t \in DateTexts, d \in Todays}
    /\ mr = IdleRequest
    /\ ph = IdlePhone
    /\ run = IdleRun
    /\ hc = IdleHash /\ oc = IdleOwner /\ nc = IdleNormalize

\* is_date_today on one text, on one day
SpecDate == InitDate /\ [][NextDate]_vars

InitRender ==
    /\ mr \in {NewRequest(m) : m \in 0..MaxRetriesCap}
    /\ ph = IdlePhone
    /\ run = IdleRun
    /\ dc = IdleDate
    /\ hc = IdleHash /\ oc = IdleOwner /\ nc = IdleNormalize

\* one _make_request call of a client with any max_retries
SpecRender == InitRender /\ [][NextRender]_vars

InitPhone ==
    /\ ph \in {NewPhone(m) : m \in 0..MaxPhoneRetriesCap}
    /\ mr = IdleRequest
    /\ run = IdleRun
    /\ dc = IdleDate
    /\ hc = IdleHash /\ oc = IdleOwner /\ nc = IdleNormalize

\* one get_phone_number call, with any PHONE_MAX_RETRIES
SpecPhone == InitPhone /\ [][NextPhone]_vars

\* a private listing dated with the word for today
SampleListing ==
    [merchantType |-> <<"1">>, date |-> <<"T">>, address |-> <<"a">>,
     link |-> RelativeLink]

\* the sites a run is made on: every page of up to MaxListings listings with
\* the payload in the page, and pages with another payload or none
Sites ==
    {Site(SearchPage(GoodScript(UnderProps(AtSearchResults(List(listings)))), FALSE),
          EmptyDict) : listings \in SeqsUpTo(ListingSamples, MaxListings)}
    \cup {Site(SearchPage(NoScript, TRUE), UnderPageProps(AtFeed(List(<<SampleListing>>)))),
          Site(SearchPage(BadScript, TRUE), UnderPageProps(AtItems(List(<<SampleListing>>)))),
          Site(SearchPage(NoScript, TRUE), AtItems(List(<<SampleListing>>))),
          Site(SearchPage(NoScript, FALSE), UnderPageProps(AtItems(List(<<SampleListing>>)))),
          Site(SearchPage(GoodScript(UnderPageProps(AtItems(Null))), FALSE), EmptyDict),
          Site(SearchPage(GoodScript(Null), TRUE),
               UnderPageProps(AtItems(List(<<SampleListing>>))))}

Init ==
    /\ run \in {NewRun(1, site, RunToday, {}, 1) : site \in Sites}
    /\ mr = IdleRequest
    /\ ph = IdlePhone
    /\ dc = IdleDate
    /\ hc = IdleHash /\ oc = IdleOwner /\ nc = IdleNormalize

\* one run of run_scraper_for_user on one site
Spec == Init /\ [][Next]_vars

\* the pages of the days of a schedule: one listing each
DailyListings ==
    {SampleListing,
     [contact_name |-> <<"X", "x">>, date |-> <<"T">>, address |-> <<"b">>,
      id |-> <<"7">>],
     [merchantType |-> <<"2">>, date |-> <<"T">>, address |-> <<"a">>,
      link |-> RelativeLink],
     [merchantType |-> <<"1">>, date |-> YesterdayText, address |-> <<"a">>,
      link |-> RelativeLink]}

DailySites ==
    {Site(SearchPage(GoodScript(UnderProps(AtSearchResults(List(<<listing>>)))), FALSE),
          EmptyDict) : listing \in DailyListings}

StartRun ==
    /\ run.pc = "done" /\ run.runs < MaxRuns
    /\ \E user_id \in Users, site \in DailySites,
          today \in {run.today, Tomorrow(run.today)} :
          run' = StartedRun(run, user_id, site, today)
    /\ UNCHANGED <<mr, ph, dc, hc, oc, nc>>

NextDaily == Next \/ StartRun

InitDaily ==
    /\ run \in {NewRun(user_id, site, RunToday, {}, 1) :
                   user_id \in Users, site \in DailySites}
    /\ mr = IdleRequest
    /\ ph = IdlePhone
    /\ dc = IdleDate
    /\ hc = IdleHash /\ oc = IdleOwner /\ nc = IdleNormalize

\* the runs of the users and of the days, on one database
SpecDaily == InitDaily /\ [][NextDaily]_vars

\* two sequences of listings a payload can hold
ListingsA == <<SampleListing>>
ListingsB ==
    <<[merchantType |-> <<"2">>, date |-> <<"T">>, address |-> <<"a">>,
       link |-> RelativeLink],
      SampleListing>>

\* what can stand at the end of a path: nothing, null, a list
Leaves == {"absent", "null", "empty", "A", "B"}
\* what can stand at a path of two keys: also null or a dict without the
\* second key in place of the first
NestedLeaves == Leaves \cup {"null at first key", "nothing at second key"}

LeafValue(leaf) ==
    CASE leaf = "null" -> Null
      [] leaf = "empty" -> List(<<>>)
      [] leaf = "A" -> List(ListingsA)
      [] leaf = "B" -> List(ListingsB)

\* the entries of pageProps for one place
Nested(first, second, leaf) ==
    IF leaf = "absent" THEN <<>>
    ELSE IF leaf = "null at first key" THEN first :> Null
    ELSE IF leaf = "nothing at second key" THEN first :> EmptyDict
    ELSE first :> Dict(second :> LeafValue(leaf))
Flat(key, leaf) == IF leaf = "absent" THEN <<>> ELSE key :> LeafValue(leaf)

PropsOf(sr, fd, it) ==
    Dict(Nested("searchResults", "results", sr) @@ Nested("feed", "feed", fd)
         @@ Flat("items", it))

\* the payloads extract_listings_from_nextjs_data is given
Payloads ==
    {UnderProps(PropsOf(sr, fd, it)) : sr \in NestedLeaves, fd \in NestedLeaves, it \in Leaves}
    \cup {UnderPageProps(PropsOf(sr, fd, it)) : sr \in Leaves, fd \in Leaves, it \in Leaves}
    \cup {Null, Scalar, EmptyDict, List(ListingsA), PropsOf("A", "A", "A"),
          Dict("props" :> Null), Dict("props" :> EmptyDict),
          Dict("props" :> Null @@ "pageProps" :> AtItems(List(ListingsA))),
          Dict("props" :> EmptyDict @@ "pageProps" :> AtItems(List(ListingsA))),
          UnderProps(Null), UnderPageProps(Null), UnderPageProps(Scalar)}

\* what the data endpoint serves
ServedData ==
    {EmptyDict, UnderPageProps(AtItems(List(ListingsA))), AtItems(List(ListingsA)),
     UnderProps(AtItems(List(ListingsB)))}

LocateSites ==
    {Site(SearchPage(GoodScript(payload), FALSE), EmptyDict) : payload \in Payloads}
    \cup {Site(SearchPage(next_data, data_src), served) :
             next_data \in {NoScript, BadScript, GoodScript(Null),
                            GoodScript(UnderProps(AtFeed(List(ListingsB))))},
             data_src \in BOOLEAN, served \in ServedData}

InitLocate ==
    /\ run \in {NewRun(1, site, RunToday, {}, 1) : site \in LocateSites}
    /\ mr = IdleRequest
    /\ ph = IdlePhone
    /\ dc = IdleDate
    /\ hc = IdleHash /\ oc = IdleOwner /\ nc = IdleNormalize

\* one run up to its loop: the page rendered, the payload and the listings
\* located
SpecLocate == InitLocate /\ [][NextLocate]_vars

InitHash ==
    /\ hc \in {NewHashCall(a, b) : a \in HashTriples, b \in HashTriples}
    /\ mr = IdleRequest
    /\ ph = IdlePhone
    /\ run = IdleRun
    /\ dc = IdleDate
    /\ oc = IdleOwner /\ nc = IdleNormalize

\* generate_listing_id on two triples
SpecHash == InitHash /\ [][NextHash]_vars

InitOwner ==
    /\ oc \in {NewOwnerCall(listing) : listing \in OwnerListings}
    /\ mr = IdleRequest
    /\ ph = IdlePhone
    /\ run = IdleRun
    /\ dc = IdleDate
    /\ hc = IdleHash /\ nc = IdleNormalize

\* is_private_owner on one element of the listings
SpecOwner == InitOwner /\ [][NextOwner]_vars

InitNormalize ==
    /\ nc \in {NewNormalizeCall(phone) : phone \in PhoneTexts}
    /\ mr = IdleRequest
    /\ ph = IdlePhone
    /\ run = IdleRun
    /\ dc = IdleDate
    /\ hc = IdleHash /\ oc = IdleOwner

\* normalize_phone_number on one text, twice
SpecNormalize == InitNormalize /\ [][NextNormalize]_vars

(***************************************************************************)
(* Claims about one _make_request call (SpecRender).                       *)
(***************************************************************************)
\* the call is over and every request it made was counted as a failed attempt
AllAttemptsFailed == mr.pc = "done" /\ mr.retries = mr.requests

\* C1: _make_request never raises to its caller, whatever each attempt does;
\* when every attempt up to max_retries failed it returns html = "" and
\* status_code = 500 with an error text.
C1_NeverRaises ==
    mr.pc = "done" =>
        /\ mr.raised = "none"
        /\ AllAttemptsFailed =>
              /\ mr.ret.kind = "map" /\ mr.ret.hasHtml
              /\ mr.ret.html = EmptyHtml
              /\ mr.ret.status_code = 500
              /\ mr.ret.error # NoError

C1_Witness ==
    /\ AllAttemptsFailed
    /\ mr.max_retries = MAX_RETRIES /\ mr.requests = MAX_RETRIES
    /\ mr.lastFailure = StrOf("ValueError")
    /\ \E i \in 1..Len(mr.sleeps) : mr.sleeps[i].cause = "status"

\* C2: the sleep after the n-th failed attempt lasts backoff_factor^n, for 429/503
\* responses and for exceptions alike (a fixed value: nothing random in it).
C2_SleepIsPowerOfAttempts ==
    \A n \in 1..Len(mr.sleeps) :
        /\ mr.sleeps[n].after = n
        /\ mr.sleeps[n].dur.num = IntPow(BACKOFF_NUM, n)
        /\ mr.sleeps[n].dur.den = IntPow(BACKOFF_DEN, n)

C2_Witness ==
    /\ Len(mr.sleeps) >= 2
    /\ \E i, j \in 1..Len(mr.sleeps) :
          mr.sleeps[i].cause = "status" /\ mr.sleeps[j].cause = "exception"

\* C3: a call makes at most max_retries requests and never gets stuck: while
\* the call runs every request made has raised the attempt counter by one, a
\* request that is not counted ends the call, and a call that is not over can
\* always take its next step.
C3_AtMostMaxRetriesRequests ==
    /\ mr.requests <= mr.max_retries
    /\ mr.retries <= mr.max_retries
    /\ mr.pc = "loop" => mr.retries = mr.requests
    /\ mr.pc = "done" => (mr.requests = mr.retries \/ mr.requests = mr.retries + 1)
    /\ mr.pc = "done" \/ ENABLED NextRender

C3_Witness ==
    /\ mr.pc = "done"
    /\ mr.max_retries = MaxRetriesCap /\ mr.requests = MaxRetriesCap
    /\ \E i, j \in 1..Len(mr.sleeps) :
          mr.sleeps[i].cause = "status" /\ mr.sleeps[j].cause = "exception"

\* C22 (as claimed): within one call every backoff sleep is followed by another
\* request of the call: no sleep comes after the attempt that uses up the
\* budget, so a call sleeps at most max_retries - 1 times, after 429/503
\* responses and after exceptions alike.
C22_EverySleepBeforeARequest ==
    /\ \A n \in 1..Len(mr.sleeps) :
           mr.sleeps[n].after < mr.requests \/ Requesting
    /\ mr.max_retries >= 1 => Len(mr.sleeps) <= mr.max_retries - 1

\* C4 (as claimed): when a call runs out of attempts, the error of the 500
\* response describes the failure of the final attempt, also when that attempt
\* got a 429 or 503.
C4_ErrorIsLastFailure ==
    (AllAttemptsFailed /\ mr.requests > 0) => mr.ret.error = mr.lastFailure

Is2xx(status) == 200 <= status /\ status < 300

\* C5 (as claimed): every response whose status is neither 2xx nor 429/503 counts
\* as a failed attempt and is not returned.
C5_AnyNon2xxIsRetried ==
    (mr.lastStatus # NoStatus /\ ~Is2xx(mr.lastStatus) /\ ~RateLimited(mr.lastStatus))
        => /\ mr.retries = mr.requests
           /\ mr.pc = "done" => mr.ret.status_code = 500

\* C5 (amended): a response with a 4xx or 5xx status other than 429/503 counts as
\* a failed attempt and its body is not returned; a 1xx or 3xx response is not
\* failed for its status: it is returned to the caller as a 2xx response is
\* (unless its body cannot be decoded and the decoding error is not caught).
C5_ErrorStatusIsRetried ==
    /\ (400 <= mr.lastStatus /\ mr.lastStatus < 600 /\ ~RateLimited(mr.lastStatus))
          => /\ mr.retries = mr.requests
             /\ mr.pc = "done" => (mr.ret.status_code = 500 /\ mr.ret.error # NoError)
    /\ (100 <= mr.lastStatus /\ mr.lastStatus < 400)
          => \/ /\ mr.pc = "done" /\ mr.requests = mr.retries + 1
                /\ mr.ret.error = NoError
             \/ /\ mr.retries = mr.requests
                /\ mr.lastFailure = StrOf("SimpleJSONDecodeError")

C5_Witness ==
    /\ mr.lastStatus = 404 /\ mr.pc = "done"
    /\ mr.retries = mr.requests /\ mr.requests = MAX_RETRIES

(***************************************************************************)
(* Claims about one get_phone_number call (SpecPhone).                     *)
(***************************************************************************)
RenderEvents == {i \in 1..Len(ph.events) : ph.events[i].ev # "delay"}

\* C6: one get_phone_number call issues at most 1 + PHONE_MAX_RETRIES renders:
\* one plain render, then at most PHONE_MAX_RETRIES replay renders, whatever the
\* renders give.
C6_AtMostOnePlusMaxRenders ==
    /\ ph.renders <= 1 + ph.phone_max_retries
    /\ ph.renders = Cardinality(RenderEvents)
    /\ \A i \in RenderEvents : (ph.events[i].ev = "plain") = (i = 1)

C6_Witness ==
    /\ ph.pc = "done"
    /\ ph.phone_max_retries = PHONE_MAX_RETRIES
    /\ ph.renders = 1 + PHONE_MAX_RETRIES
    /\ \E i \in RenderEvents : ph.events[i].what = "raised"
    /\ \E i \in RenderEvents : ph.events[i].what = "failed"

\* C8: a pause of between min_delay and max_delay seconds follows a replay
\* attempt exactly when that attempt found no phone (or raised) and another
\* replay attempt follows it; nothing else pauses.
C8_PauseOnlyBetweenReplays ==
    \A i \in 1..Len(ph.events) :
        LET e == ph.events[i]
            last == i = Len(ph.events)
        IN  /\ e.ev = "delay" =>
                /\ MIN_DELAY <= e.dur /\ e.dur <= MAX_DELAY
                /\ i > 1 /\ ph.events[i - 1].ev = "replay"
                /\ ph.events[i - 1].what # "found"
                /\ last => (ph.pc = "replay" /\ ph.retry < ph.phone_max_retries)
                /\ ~last => ph.events[i + 1].ev = "replay"
            /\ (e.ev = "replay" /\ ~last) => ph.events[i + 1].ev = "delay"
            /\ (e.ev = "replay" /\ last /\ ph.pc = "replay") =>
                   ~(ph.retry < ph.phone_max_retries)
            /\ (e.ev = "plain" /\ ~last) => ph.events[i + 1].ev = "replay"

C8_Witness ==
    /\ ph.pc = "done" /\ ph.phone = <<>>
    /\ Len(ph.events) = 4
    /\ ph.events[2].what = "raised" /\ ph.events[3].ev = "delay"
    /\ ph.events[4].what = "no phone"

(***************************************************************************)
(* Claims about is_date_today (SpecDate).                                  *)
(***************************************************************************)
AllDigits(t) == t # <<>> /\ \A i \in 1..Len(t) : t[i] \in Digits

\* the text is exactly D/M/Y: one or two digits, one or two digits, and a year of
\* two or of four digits
ExactDayMonthYear(t) ==
    LET parts == Split(t, "/")
    IN  /\ Len(parts) = 3
        /\ AllDigits(parts[1]) /\ Len(parts[1]) <= 2
        /\ AllDigits(parts[2]) /\ Len(parts[2]) <= 2
        /\ AllDigits(parts[3]) /\ Len(parts[3]) \in {2, 4}

\* the calendar date such a text names: YY means 2000 + YY, YYYY is as written
NamesDate(t, date) ==
    LET parts == Split(t, "/")
        y == IF Len(parts[3]) = 2 THEN 2000 + DigitsValue(parts[3])
             ELSE DigitsValue(parts[3])
    IN  /\ ValidDate(y, DigitsValue(parts[2]), DigitsValue(parts[1]))
        /\ date = Date(y, DigitsValue(parts[2]), DigitsValue(parts[1]))

\* C10 (as claimed): for a text that is exactly D/M/Y in either form,
\* is_date_today is true exactly when the date it names is the current date.
C10_ExactDateIsTodayIffEqual ==
    (dc.pc = "done" /\ ExactDayMonthYear(dc.date_str))
        => (dc.result <=> NamesDate(dc.date_str, dc.today))

(***************************************************************************)
(* Claims about one run over a page's listings (Spec).                     *)
(***************************************************************************)
Visited == run.listings[run.last.index]

\* the listing visited last passed both filters and its phone cascade made all
\* its renders, none of which gave a phone
CascadeExhausted ==
    /\ run.last.index > 0 /\ run.last.private /\ run.last.today
    /\ run.last.renders = 1 + PHONE_MAX_RETRIES
    /\ ~run.last.found

DatedToday(listing, today) == is_date_today(Get(listing, "date"), today)

\* C9 (as claimed): a Lead is handed to save_lead for a listing exactly when the
\* listing is private and its publish-date field says today (the phone lookup
\* not failing).
C9_LeadIffPrivateAndDatedToday ==
    (run.last.index > 0 /\ ~run.last.lookup_raised) =>
        (run.last.handed <=>
            (is_private_owner(Visited) /\ DatedToday(Visited, run.today)))

\* C17: the stages of a listing are gated in order: the date check is evaluated
\* only for a listing the ownership check calls private, and the fields are
\* extracted, the listing's page rendered and a Lead handed on only for a
\* listing that passed both checks; a listing rejected by either gets no render.
C17_StagesGatedInOrder ==
    run.last.index > 0 =>
        /\ run.last.dated => is_private_owner(Visited)
        /\ (run.last.renders > 0 \/ run.last.handed \/ run.last.lead # NoLead)
               => /\ is_private_owner(Visited)
                  /\ ListingIsToday(Visited, run.today)
        /\ ~(is_private_owner(Visited) /\ ListingIsToday(Visited, run.today))
               => (run.last.renders = 0 /\ ~run.last.handed)
        \* the renders of the run were all made for listings that passed
        /\ run.renders > 0 =>
               \E j \in 1..run.last.index :
                   /\ is_private_owner(run.listings[j])
                   /\ ListingIsToday(run.listings[j], run.today)

\* a listing dated yesterday is visited after one whose page was rendered, and
\* its date was checked
C17_Witness ==
    /\ run.last.index = 2
    /\ is_private_owner(Visited) /\ ~ListingIsToday(Visited, run.today)
    /\ run.last.dated /\ run.last.renders = 0
    /\ run.renders > 0

\* C18 (as claimed): a failure while one listing is handled never stops the
\* run: when the run is over every listing of the located sequence was visited,
\* whatever happened to the earlier ones.
C18_EveryListingVisited ==
    (run.pc = "done" /\ run.page_renders > 0) =>
        /\ run.i = Len(run.listings) + 1
        /\ (run.listings # <<>> => run.last.index = Len(run.listings))

\* the rows of the leads table inserted during the run
InsertedInRun == run.db \ run.db0

\* C21 (as claimed): the saved count reported when a run ends (line 119) is
\* the number of rows the run inserted; a save_lead call that finds the lead
\* already in the table does not increase it.
C21_SavedCountIsRowsInserted ==
    (run.pc = "done" /\ ~run.raised) =>
        run.saved_count = Cardinality(InsertedInRun)

(***************************************************************************)
(* Claims about locating the payload and the listings (SpecLocate).        *)
(***************************************************************************)
\* the run is past extract_nextjs_data, which was given markup
PayloadLocated == run.pc \in {"listings", "loop", "done"} /\ ~HtmlContent(run.data).empty

\* C11: the first strategy that succeeds wins: when the script in the page gives
\* a payload that payload is returned and the data endpoint is not fetched; when
\* it gives none (no script, or a script that is not JSON) and the page names
\* the data endpoint, the endpoint is fetched, and what it returns is the
\* payload exactly when it has the key pageProps.
C11_StrategiesInOrder ==
    PayloadLocated =>
        LET page == HtmlContent(run.data)
            embedded == page.next_data.found /\ page.next_data.parses
        IN  /\ embedded => /\ run.data_fetches = 0
                            /\ run.nextjs_data = page.next_data.value
            /\ (~embedded /\ page.data_src) => run.data_fetches = 1
            /\ (~embedded /\ ~page.data_src) =>
                   (run.data_fetches = 0 /\ run.nextjs_data = EmptyDict)
            /\ (~embedded /\ run.nextjs_data # EmptyDict) =>
                   (run.nextjs_data = run.site.served
                       /\ "pageProps" \in DOMAIN run.site.served.map)

RECURSIVE Resolve(_, _)
\* the traversal of a path of keys from a value: whether it succeeds, and the
\* value it resolves to
Resolve(value, path) ==
    IF path = <<>> THEN [ok |-> TRUE, value |-> value]
    ELSE IF value.kind = "dict" /\ Head(path) \in DOMAIN value.map
    THEN Resolve(value.map[Head(path)], Tail(path))
    ELSE [ok |-> FALSE, value |-> Null]

\* a path qualifies when its traversal succeeds and gives a sequence
Qualifies(props, path) ==
    Resolve(props, path).ok /\ Resolve(props, path).value.kind = "list"

\* the listings of the first of the three paths that qualifies
FirstQualifying(props) ==
    IF Qualifies(props, <<"searchResults", "results">>)
    THEN Resolve(props, <<"searchResults", "results">>).value.items
    ELSE IF Qualifies(props, <<"feed", "feed">>)
    THEN Resolve(props, <<"feed", "feed">>).value.items
    ELSE IF Qualifies(props, <<"items">>)
    THEN Resolve(props, <<"items">>).value.items
    ELSE <<>>

\* C13: the listings located are those of the first of searchResults.results,
\* feed.feed and items that resolves to a sequence, unchanged and in order, a
\* path that resolves to something else (null) being passed over; they are
\* none when no path qualifies.
C13_FirstSequenceWins ==
    (run.pc = "loop" /\ run.i = 1 /\ run.nextjs_data.kind = "dict") =>
        /\ Resolve(run.nextjs_data, <<"props", "pageProps">>).ok =>
               run.listings =
                   FirstQualifying(Resolve(run.nextjs_data, <<"props", "pageProps">>).value)
        /\ (/\ "props" \notin DOMAIN run.nextjs_data.map
            /\ Resolve(run.nextjs_data, <<"pageProps">>).ok) =>
               run.listings =
                   FirstQualifying(Resolve(run.nextjs_data, <<"pageProps">>).value)

\* C12: when no payload is located (the render of the page ended in the
\* response for exhausted attempts, or extract_nextjs_data gave {}), the run
\* has no listings, renders no listing page, calls save_lead not once, leaves
\* the table as it was and goes on to its end without an exception.
C12_NoPayloadNoLeads ==
    (/\ run.pc \in {"listings", "loop", "done"}
     /\ run.data.failed \/ run.nextjs_data = EmptyDict)
        => /\ run.nextjs_data = EmptyDict
           /\ run.listings = <<>>
           /\ run.renders = 0 /\ run.handed = 0
           /\ run.processed_count = 0 /\ run.saved_count = 0
           /\ run.db = {}
           /\ ~run.raised
           /\ run.pc = "done" \/ ENABLED Next

\* a run is over on a page with neither a script that parses nor an accepted
\* answer of the data endpoint, which was fetched
C12_Witness ==
    /\ run.pc = "done"
    /\ ~HtmlContent(run.data).empty
    /\ ~HtmlContent(run.data).next_data.found
    /\ run.data_fetches = 1
    /\ run.nextjs_data = EmptyDict

(***************************************************************************)
(* Claims about the runs made on one database (SpecDaily).                 *)
(***************************************************************************)
\* C14: the table never holds two rows of the same user for the same listing
\* of the site (the listing its URL names), whatever the days and the phone
\* lookups of the runs that saved them.
C14_OneRowPerSiteListing ==
    \A a \in run.db, b \in run.db :
        (/\ a.user_id = b.user_id
         /\ a.listing_url = b.listing_url
         /\ a.listing_url # <<>>) => a = b

\* C15: the Leads extracted from one listing on one day carry one id, whatever
\* the renders of the runs gave.
C15_IdStableWithinDay ==
    \A a \in run.emitted, b \in run.emitted :
        (a.listing = b.listing /\ a.today = b.today) => a.id = b.id

(***************************************************************************)
(* Claims about generate_listing_id (SpecHash).                            *)
(***************************************************************************)
\* the number of components in which two triples differ
Differences(a, b) ==
    Cardinality({k \in {"phone", "address", "date_str"} : a[k] # b[k]})

\* C16: equal triples get equal identifiers, and two triples that differ in
\* exactly one of phone, address and date get different ones.
C16_IdOfTriple ==
    hc.pc = "done" =>
        /\ hc.a = hc.b => hc.id_a = hc.id_b
        /\ Differences(hc.a, hc.b) = 1 => hc.id_a # hc.id_b

\* two triples that differ in the phone only were hashed
C16_Witness ==
    /\ hc.pc = "done"
    /\ hc.a.phone # hc.b.phone
    /\ hc.a.address = hc.b.address /\ hc.a.date_str = hc.b.date_str
    /\ hc.id_a # hc.id_b

(***************************************************************************)
(* Claims about is_private_owner (SpecOwner).                              *)
(***************************************************************************)
\* the field is present and not empty: not '', not null, not 0
NonEmptyField(listing, key) ==
    /\ key \in DOMAIN listing.items
    /\ listing.items[key] \notin {Text(<<>>), None, Number(0)}

\* the field, written out, is "1"
IsOne(listing, key) == listing.items[key] \in {Text(<<"1">>), Number(1)}

\* the field is a text that contains one of the agency words
HasAgencyWord(listing, key) ==
    /\ key \in DOMAIN listing.items
    /\ listing.items[key].kind = "str"
    /\ \E word \in {<<"A">>, <<"R", "/", "M">>} : Contains(listing.items[key].text, word)

\* the decision the claim gives for a record inspected without an exception
Decision(listing) ==
    IF NonEmptyField(listing, "merchantType") THEN IsOne(listing, "merchantType")
    ELSE IF NonEmptyField(listing, "adType") THEN IsOne(listing, "adType")
    ELSE IF HasAgencyWord(listing, "merchantName") \/ HasAgencyWord(listing, "contact_name")
    THEN FALSE
    ELSE TRUE

\* C19: is_private_owner gives true when the inspection raised, and otherwise
\* what merchantType says if it is there and not empty, else what adType says
\* if it is there and not empty, else false if one of the two names holds an
\* agency word, else true.
C19_OwnerDecision ==
    oc.pc = "done" =>
        /\ oc.raised => oc.result
        /\ ~oc.raised => oc.result = Decision(oc.listing)
        /\ ~oc.listing.dict => oc.raised

\* a record with merchantType "1" and an agency's name was classified private
C19_Witness ==
    /\ oc.pc = "done"
    /\ oc.listing.dict
    /\ NonEmptyField(oc.listing, "merchantType")
    /\ IsOne(oc.listing, "merchantType")
    /\ HasAgencyWord(oc.listing, "merchantName")
    /\ oc.result

(***************************************************************************)
(* Claims about normalize_phone_number (SpecNormalize).                    *)
(***************************************************************************)
\* the digits of a text, in order
DigitsOf(text) == SelectSeq(text, LAMBDA c : c \in Digits)

\* the text is the digits with a dash put after the digits numbered in `after`
DashedAfter(text, digits, after) ==
    /\ DigitsOf(text) = digits
    /\ Len(text) = Len(digits) + Cardinality(after)
    /\ \A i \in 1..Len(text) :
           text[i] = "-" <=> \E k \in after : i = k + Cardinality({j \in after : j <= k})

\* C20: the result holds the digits of the text as XX-XXX-XXXX when they are
\* nine and as XXX-XXX-XXXX when they are ten, and is empty for every other
\* number of digits; normalizing the result gives the result again.
C20_NormalizedPhone ==
    /\ nc.pc \in {"again", "done"} =>
          LET digits == DigitsOf(nc.phone)
          IN  /\ Len(digits) = 9 => DashedAfter(nc.once, digits, {2, 5})
              /\ Len(digits) = 10 => DashedAfter(nc.once, digits, {3, 6})
              /\ Len(digits) \notin {9, 10} => nc.once = <<>>
    /\ nc.pc = "done" => nc.twice = nc.once

\* a text of ten digits and other characters was normalized, and its result
\* normalized again
C20_Witness ==
    /\ nc.pc = "done"
    /\ Len(DigitsOf(nc.phone)) = 10
    /\ Len(nc.phone) > 10
    /\ nc.once # <<>>
    /\ nc.twice = nc.once

====
